---- MODULE Spec2Model ----
(***************************************************************************)
(* A model of compas_robots.model.tool.ToolModel: the constructor, the two  *)
(* alternate constructors, the data property, dtype and the two frame       *)
(* conversions.                                                             *)
(*                                                                          *)
(* Python objects are functions from attribute names to values, Python      *)
(* dictionaries are functions from keys to values, lists are sequences.     *)
(* Coordinates are fixed-point integers in units of 1/Scale, so that the    *)
(* three-decimal frames of the docstrings are values of the model.          *)
(***************************************************************************)
EXTENDS Integers, Sequences, FiniteSets, TLC

\* ------------------------------------------------------------------ bounds
\* Longest list of frames handed to a conversion.
MaxLen == 2

\* Tolerance, in units of 1/Scale, when two frames are compared "up to
\* floating-point tolerance".
Tol == 2

\* ------------------------------------------------------ Python basic values
\* Fixed-point unit: 1.0 is Scale (the docstrings print three decimals).
Scale == 1000

\* Python's None.
None == "<None>"

\* "no object": what a call returns when it raised.
NoObj == [class |-> "NoneType"]

\* Truthiness of the values `x or y` is applied to in tool.py.
Falsy(v) == v \in {None, ""}

\* x or y
Or(x, y) == IF Falsy(x) THEN y ELSE x

\* obj.attr = value (also d[key] = value on a dictionary)
SetAttr(o, k, v) == [x \in (DOMAIN o) \cup {k} |-> IF x = k THEN v ELSE o[x]]

\* hasattr(obj, attr) / key in d
HasAttr(o, k) == k \in DOMAIN o

\* The attributes of a builtin dict: attribute lookup of anything else on a
\* dict raises AttributeError.
DictAttrs == {"get", "keys", "values", "items", "update", "pop", "copy", "setdefault"}

\* The outcome of a call: the exception raised ("none" when it returned) and
\* the value returned.
Return(v) == [err |-> "none", ret |-> v]

Raise(e) == [err |-> e, ret |-> NoObj]

\* ------------------------------------------------- fixed-point arithmetic
Abs(a) == IF a >= 0 THEN a ELSE -a

\* a / b rounded to the nearest integer, halves away from zero (b > 0).
RDiv(a, b) == IF a >= 0 THEN (2 * a + b) \div (2 * b) ELSE -((2 * (-a) + b) \div (2 * b))

RECURSIVE Newton(_, _)
\* Newton's iteration for the integer square root: from r >= sqrt(n) down
\* to the largest r with r * r <= n.
Newton(n, r) ==
    LET next == (r + n \div r) \div 2
    IN  IF next >= r THEN r ELSE Newton(n, next)

\* sqrt(n) rounded to the nearest integer.
Sqrt(n) ==
    IF n = 0 THEN 0
    ELSE LET r == Newton(n, (n \div Scale + Scale) \div 2 + 1)
         IN  IF n - r * r > r THEN r + 1 ELSE r

Dot(u, v) == u[1] * v[1] + u[2] * v[2] + u[3] * v[3]

\* cross product of two fixed-point vectors
Cross(u, v) ==
    << RDiv(u[2] * v[3] - u[3] * v[2], Scale),
       RDiv(u[3] * v[1] - u[1] * v[3], Scale),
       RDiv(u[1] * v[2] - u[2] * v[1], Scale) >>

\* Vector.unitize
Unitize(v) ==
    LET len == Sqrt(Dot(v, v))
    IN  IF len = 0 THEN v
        ELSE << RDiv(v[1] * Scale, len), RDiv(v[2] * Scale, len), RDiv(v[3] * Scale, len) >>

\* ------------------------------------------------------ compas.geometry
\* Frame(point, xaxis, yaxis): the x axis is unitized, the y axis is made
\* orthonormal to it.
Frame(point, xaxis, yaxis) ==
    LET x == Unitize(xaxis)
        z == Unitize(Cross(x, Unitize(yaxis)))
    IN  [class |-> "Frame", point |-> point, xaxis |-> x, yaxis |-> Cross(z, x)]

\* Frame.worldXY()
worldXY == Frame(<<0, 0, 0>>, <<Scale, 0, 0>>, <<0, Scale, 0>>)

\* frame.zaxis
Zaxis(f) == Cross(f.xaxis, f.yaxis)

\* frame.data
Frame_data(f) == [point |-> f.point, xaxis |-> f.xaxis, yaxis |-> f.yaxis]

\* Frame.from_data(data)
Frame_from_data(d) == Frame(d.point, d.xaxis, d.yaxis)

\* Transformation(): the 4x4 identity matrix, a tuple of rows
Identity ==
    << <<Scale, 0, 0, 0>>, <<0, Scale, 0, 0>>, <<0, 0, Scale, 0>>, <<0, 0, 0, Scale>> >>

\* Transformation.from_frame(frame): columns xaxis, yaxis, zaxis, point
from_frame(f) ==
    LET z == Zaxis(f)
    IN  << <<f.xaxis[1], f.yaxis[1], z[1], f.point[1]>>,
           <<f.xaxis[2], f.yaxis[2], z[2], f.point[2]>>,
           <<f.xaxis[3], f.yaxis[3], z[3], f.point[3]>>,
           <<0, 0, 0, Scale>> >>

\* one entry of a product: row a times column j of B
MulEntry(a, B, j) ==
    RDiv(a[1] * B[1][j] + a[2] * B[2][j] + a[3] * B[3][j] + a[4] * B[4][j], Scale)

MulRow(a, B) == << MulEntry(a, B, 1), MulEntry(a, B, 2), MulEntry(a, B, 3), MulEntry(a, B, 4) >>

\* A * B (multiply_matrices)
Mul(A, B) == << MulRow(A[1], B), MulRow(A[2], B), MulRow(A[3], B), MulRow(A[4], B) >>

\* row i of the inverse of a rigid matrix
InverseRow(M, i) ==
    << M[1][i], M[2][i], M[3][i],
       -RDiv(M[1][i] * M[1][4] + M[2][i] * M[2][4] + M[3][i] * M[3][4], Scale) >>

\* matrix_inverse of the matrix of an orthonormal frame: the rotation
\* transposed, the translation rotated back and negated.
Inverse(M) == << InverseRow(M, 1), InverseRow(M, 2), InverseRow(M, 3), <<0, 0, 0, Scale>> >>

\* Transformation.from_frame_to_frame(frame_from, frame_to)
from_frame_to_frame(frame_from, frame_to) ==
    Mul(from_frame(frame_to), Inverse(from_frame(frame_from)))

\* Frame.from_transformation(T): the frame of the basis vectors and the
\* translation of T
from_transformation(T) ==
    Frame(<<T[1][4], T[2][4], T[3][4]>>,
          <<T[1][1], T[2][1], T[3][1]>>,
          <<T[1][2], T[2][2], T[3][2]>>)

\* ------------------------------------------------------------- RobotModel
\* The superclass, as far as tool.py uses it: a named tree of links and
\* joints that is serialized to a dictionary and rebuilt from one.

\* RobotModel.__init__(name): an empty tree
RobotModel__init__(cls, name) ==
    [class |-> cls, name |-> name, links |-> <<>>, joints |-> <<>>, root |-> None]

\* A link of the tree; init_transformation is <<>> until the tree is created.
Link(name, visual, collision) ==
    [name |-> name, visual |-> visual, collision |-> collision, init_transformation |-> <<>>]

\* self.add_link(name, visual_mesh=..., collision_mesh=...)
add_link(self, name, visual_mesh, collision_mesh) ==
    [self EXCEPT !.links = Append(@, Link(name, visual_mesh, collision_mesh))]

\* self._rebuild_tree(): the root is the link that is no joint's child
_rebuild_tree(self) ==
    LET children == {self.joints[j].child : j \in DOMAIN self.joints}
        roots == {i \in DOMAIN self.links : self.links[i].name \notin children}
    IN  [self EXCEPT !.root =
            IF roots = {} THEN None
            ELSE self.links[CHOOSE i \in roots : \A k \in roots : i <= k].name]

\* self._create(link, parent_transformation): the links below `link` get
\* their transformation (joint origins are not part of this model)
_create(self, link, parent_transformation) ==
    IF link = None THEN self
    ELSE [self EXCEPT !.links =
            [i \in DOMAIN self.links |->
                [self.links[i] EXCEPT !.init_transformation = <<parent_transformation>>]]]

\* link.data
Link_data(l) == [name |-> l.name, visual |-> l.visual, collision |-> l.collision]

\* RobotModel.data: a dictionary computed afresh on every read
RobotModel_data(self) ==
    [name |-> self.name,
     links |-> [i \in DOMAIN self.links |-> Link_data(self.links[i])],
     joints |-> self.joints]

\* RobotModel.from_data(data), called on class cls: an instance of cls with
\* the tree of the dictionary; a missing name is None.
RobotModel_from_data(cls, data) ==
    LET named == RobotModel__init__(cls, IF HasAttr(data, "name") THEN data.name ELSE None)
        filled == [named EXCEPT
                     !.links = [i \in DOMAIN data.links |->
                                   Link(data.links[i].name, data.links[i].visual,
                                        data.links[i].collision)],
                     !.joints = data.joints]
        rebuilt == _rebuild_tree(filled)
    IN  _create(rebuilt, rebuilt.root, Identity)

\* -------------------------------------------------------------- ToolModel
\* Init_L47 with the supplied collision mesh dropped in favour of visual
Init_L47_visual_only(visual, frame_in_tool0_frame, collision, name, link_name) ==
    [self |-> RobotModel__init__("ToolModel", name),
     visual |-> visual,
     collision |-> visual,
     frame_in_tool0_frame |-> frame_in_tool0_frame,
     link_name |-> link_name]

\* ToolModel.__init__, lines 46-47: the activation record after
\* `collision = collision or visual` and the superclass constructor
Init_L47(visual, frame_in_tool0_frame, collision, name, link_name) ==
    [self |-> RobotModel__init__("ToolModel", name),
     visual |-> visual,
     collision |-> Or(collision, visual),
     frame_in_tool0_frame |-> frame_in_tool0_frame,
     link_name |-> link_name]

\* line 48: self.add_link("attached_tool_link", ...)
Init_L48(fr) ==
    [fr EXCEPT !.self = add_link(fr.self, "attached_tool_link", fr.visual, fr.collision)]

\* Init_L50 with the frame stored where the tree should be rebuilt
Init_L50_frame_first(fr) ==
    [fr EXCEPT !.self = SetAttr(fr.self, "frame", fr.frame_in_tool0_frame)]

\* line 50: self._rebuild_tree()
Init_L50(fr) == [fr EXCEPT !.self = _rebuild_tree(fr.self)]

\* line 51: self._create(self.root, Transformation())
Init_L51(fr) == [fr EXCEPT !.self = _create(fr.self, fr.self.root, Identity)]

\* line 53: self.frame = frame_in_tool0_frame
Init_L53(fr) == [fr EXCEPT !.self = SetAttr(fr.self, "frame", fr.frame_in_tool0_frame)]

\* line 54: self.link_name = link_name
Init_L54(fr) == [fr EXCEPT !.self = SetAttr(fr.self, "link_name", fr.link_name)]

\* from_data with a world frame standing in for a missing "frame"
from_data_default_frame(cls, data) ==
    LET tool0 == RobotModel_from_data(cls, data)
        tool1 == [tool0 EXCEPT !.name = Or(tool0.name, "attached_tool")]
        tool2 == SetAttr(tool1, "frame",
                         IF HasAttr(data, "frame") THEN Frame_from_data(data.frame)
                         ELSE worldXY)
        tool3 == SetAttr(tool2, "link_name",
                         IF HasAttr(data, "link_name") THEN data.link_name ELSE None)
    IN  Return(tool3)

\* from_data with the reconstructed name kept as it is
from_data_keep_name(cls, data) ==
    LET tool0 == RobotModel_from_data(cls, data)
    IN  IF ~HasAttr(data, "frame") THEN Raise("KeyError")
        ELSE LET tool2 == SetAttr(tool0, "frame", Frame_from_data(data.frame))
                 tool3 == SetAttr(tool2, "link_name",
                                  IF HasAttr(data, "link_name") THEN data.link_name ELSE None)
             IN  Return(tool3)

\* ToolModel.from_data(data)
from_data(cls, data) ==
    LET tool0 == RobotModel_from_data(cls, data)
        tool1 == [tool0 EXCEPT !.name = Or(tool0.name, "attached_tool")]
    IN  IF ~HasAttr(data, "frame") THEN Raise("KeyError")
        ELSE LET tool2 == SetAttr(tool1, "frame", Frame_from_data(data.frame))
                 tool3 == SetAttr(tool2, "link_name",
                                  IF HasAttr(data, "link_name") THEN data.link_name ELSE None)
             IN  Return(tool3)

\* from_robot_model with link_name left out of the dictionary
from_robot_model_no_link_name(robot, frame_in_tool0_frame, link_name) ==
    LET data0 == RobotModel_data(robot)
        data1 == SetAttr(data0, "frame", Frame_data(frame_in_tool0_frame))
        out == from_data("ToolModel", data1)
    IN  [err |-> out.err, ret |-> out.ret, robot |-> robot]

\* ToolModel.from_robot_model(robot, frame_in_tool0_frame, link_name): the
\* outcome of the call and the robot as the call leaves it
from_robot_model(robot, frame_in_tool0_frame, link_name) ==
    LET data0 == RobotModel_data(robot)
        data1 == SetAttr(data0, "frame", Frame_data(frame_in_tool0_frame))
        data2 == SetAttr(data1, "link_name", link_name)
        out == from_data("ToolModel", data2)
    IN  [err |-> out.err, ret |-> out.ret, robot |-> robot]

\* ToolModel.dtype
dtype(self) == Return("compas_robots/ToolModel")

\* ToolModel.data: `super(ToolModel, self).data` is the superclass property
\* read on self, a dictionary; `.fget` is then looked up on that dictionary.
data(self) ==
    LET base == RobotModel_data(self)
    IN  IF "fget" \notin DictAttrs THEN Raise("AttributeError")
        ELSE LET data1 == SetAttr(base, "frame", Frame_data(self.frame))
                 data2 == SetAttr(data1, "link_name", self.link_name)
             IN  Return(data2)

\* ToolModel.from_data(x.data)
reserialize(self) ==
    LET d == data(self)
    IN  IF d.err # "none" THEN d ELSE from_data("ToolModel", d.ret)

\* [Frame.from_transformation(Transformation.from_frame(f) * Te) for f in frames]
Convert(frames, Te) ==
    [i \in DOMAIN frames |-> from_transformation(Mul(from_frame(frames[i]), Te))]

\* from_tcf_to_t0cf with Te built the other way round
from_tcf_to_t0cf_reversed(self, frames_tcf) ==
    LET Te == from_frame_to_frame(worldXY, self.frame)
    IN  [err |-> "none", ret |-> Convert(frames_tcf, Te), self |-> self, frames |-> frames_tcf]

\* from_t0cf_to_tcf with the Te of from_tcf_to_t0cf
from_t0cf_to_tcf_same_Te(self, frames_t0cf) ==
    LET Te == from_frame_to_frame(self.frame, worldXY)
    IN  [err |-> "none", ret |-> Convert(frames_t0cf, Te), self |-> self, frames |-> frames_t0cf]

\* from_t0cf_to_tcf converting the caller's list in place
from_t0cf_to_tcf_in_place(self, frames_t0cf) ==
    LET Te == from_frame_to_frame(worldXY, self.frame)
    IN  [err |-> "none", ret |-> Convert(frames_t0cf, Te), self |-> self,
         frames |-> Convert(frames_t0cf, Te)]

\* ToolModel.from_tcf_to_t0cf(frames_tcf): the list returned, with self and
\* the caller's list as the call leaves them
from_tcf_to_t0cf(self, frames_tcf) ==
    LET Te == from_frame_to_frame(self.frame, worldXY)
    IN  [err |-> "none", ret |-> Convert(frames_tcf, Te), self |-> self, frames |-> frames_tcf]

\* ToolModel.from_t0cf_to_tcf(frames_t0cf)
from_t0cf_to_tcf(self, frames_t0cf) ==
    LET Te == from_frame_to_frame(worldXY, self.frame)
    IN  [err |-> "none", ret |-> Convert(frames_t0cf, Te), self |-> self, frames |-> frames_t0cf]

\* ------------------------------------------------------ the values drawn
\* The tool frame of the docstrings: Frame([0.14, 0, 0], [0, 1, 0], [0, 0, 1])
FrameDoc == Frame(<<140, 0, 0>>, <<0, Scale, 0>>, <<0, 0, Scale>>)

\* Another tool frame, turned about the z axis and shifted.
FrameB == Frame(<<100, 0, 50>>, <<0, -Scale, 0>>, <<Scale, 0, 0>>)

\* The tcf frame of the docstring of from_tcf_to_t0cf.
TcfDoc == Frame(<<-309, -46, -266>>, <<276, 926, -256>>, <<879, -136, 456>>)

\* The t0cf frame the docstring prints for it.
T0cfDoc == [point |-> <<-363, 3, -147>>, xaxis |-> <<388, -351, -852>>,
            yaxis |-> <<276, 926, -256>>]

\* An axis-parallel frame.
FrameG == Frame(<<500, -200, 300>>, <<0, 0, Scale>>, <<0, Scale, 0>>)

ToolFrames == {FrameDoc, FrameB}

Elems == {TcfDoc, FrameG}

FrameLists == UNION {[1..n -> Elems] : n \in 0..MaxLen}

Names == {"attached_tool", "", "gripper"}

LinkNames == {None, "tool0"}

Meshes == {"mesh_a", "mesh_b"}

\* The serialized trees the robots and the dictionaries are made of.
TreeArm ==
    [links |-> << [name |-> "base", visual |-> "mesh_a", collision |-> "mesh_b"],
                  [name |-> "flange", visual |-> None, collision |-> None] >>,
     joints |-> << [name |-> "joint_1", parent |-> "base", child |-> "flange"] >>]

TreeBody ==
    [links |-> << [name |-> "body", visual |-> "mesh_b", collision |-> "mesh_b"] >>,
     joints |-> <<>>]

\* The robots handed to from_robot_model.
Robots ==
    {RobotModel_from_data("RobotModel", SetAttr(TreeArm, "name", "ur5")),
     RobotModel_from_data("RobotModel", SetAttr(TreeBody, "name", ""))}

\* d with key k set to v, or left out when v is the mark "absent"
With(d, k, v) == IF v = "<absent>" THEN d ELSE SetAttr(d, k, v)

\* The dictionaries handed to from_data: with and without a name, a frame
\* and a link_name.
Dicts ==
    {With(With(With(TreeBody, "name", n), "link_name", l), "frame", f) :
        n \in {"<absent>", "", "gripper"},
        l \in {"<absent>"} \cup LinkNames,
        f \in {"<absent>"}} \cup
    {SetAttr(With(With(TreeBody, "name", n), "link_name", l), "frame", Frame_data(f)) :
        n \in {"<absent>", "", "gripper"},
        l \in {"<absent>"} \cup LinkNames,
        f \in {FrameB}}

\* ------------------------------------------------------------------ state
VARIABLES
    pc,     \* "idle", or the line of __init__ that runs next
    fr,     \* the activation record of the running __init__
    tool,   \* the tool, NoObj before it is created
    how,    \* how the tool was created
    robot,  \* the robot handed to from_robot_model, as the call left it
    last    \* the latest call that returned or raised: its name, its
            \* arguments, self when it was called, and its outcome

vars == <<pc, fr, tool, how, robot, last>>

NoCall == [op |-> "none"]

Init ==
    /\ pc = "idle"
    /\ fr = NoObj
    /\ tool = NoObj
    /\ how = "none"
    /\ robot = NoObj
    /\ last = NoCall

Idle == pc = "idle"

HasTool == Idle /\ tool # NoObj

\* tool = ToolModel(visual, frame, collision, name, link_name): lines 46-47
Call__init__ ==
    /\ Idle /\ tool = NoObj
    /\ \E visual \in Meshes, frame \in ToolFrames, collision \in Meshes \cup {None},
          name \in Names, link_name \in LinkNames :
        /\ fr' = Init_L47(visual, frame, collision, name, link_name)
        /\ last' = [op |-> "__init__",
                    arg |-> [visual |-> visual, frame |-> frame, collision |-> collision,
                             name |-> name, link_name |-> link_name]]
    /\ pc' = "L48"
    /\ UNCHANGED <<tool, how, robot>>

Run_L48 ==
    /\ pc = "L48"
    /\ fr' = Init_L48(fr)
    /\ pc' = "L50"
    /\ UNCHANGED <<tool, how, robot, last>>

Run_L50 ==
    /\ pc = "L50"
    /\ fr' = Init_L50(fr)
    /\ pc' = "L51"
    /\ UNCHANGED <<tool, how, robot, last>>

Run_L51 ==
    /\ pc = "L51"
    /\ fr' = Init_L51(fr)
    /\ pc' = "L53"
    /\ UNCHANGED <<tool, how, robot, last>>

Run_L53 ==
    /\ pc = "L53"
    /\ fr' = Init_L53(fr)
    /\ pc' = "L54"
    /\ UNCHANGED <<tool, how, robot, last>>

\* line 54, and the constructor returns
Run_L54 ==
    /\ pc = "L54"
    /\ tool' = Init_L54(fr).self
    /\ how' = "__init__"
    /\ last' = [op |-> "__init__", arg |-> last.arg, err |-> "none", ret |-> tool']
    /\ fr' = NoObj
    /\ pc' = "idle"
    /\ UNCHANGED robot

\* tool = ToolModel.from_robot_model(r, frame, link_name)
FromRobotModel ==
    /\ Idle /\ tool = NoObj
    /\ \E r \in Robots, frame \in ToolFrames, link_name \in LinkNames :
        \E out \in {from_robot_model(r, frame, link_name)} :
            /\ tool' = out.ret
            /\ robot' = out.robot
            /\ how' = IF out.err = "none" THEN "from_robot_model" ELSE how
            /\ last' = [op |-> "from_robot_model", err |-> out.err, ret |-> out.ret,
                        arg |-> [robot |-> r, frame |-> frame, link_name |-> link_name]]
    /\ UNCHANGED <<pc, fr>>

\* tool = ToolModel.from_data(d)
FromData ==
    /\ Idle /\ tool = NoObj
    /\ \E d \in Dicts :
        \E out \in {from_data("ToolModel", d)} :
            /\ tool' = out.ret
            /\ how' = IF out.err = "none" THEN "from_data" ELSE how
            /\ last' = [op |-> "from_data", err |-> out.err, ret |-> out.ret, arg |-> d]
    /\ UNCHANGED <<pc, fr, robot>>

\* tool.frame = f
SetFrame ==
    /\ HasTool
    /\ \E f \in ToolFrames : tool' = SetAttr(tool, "frame", f)
    /\ UNCHANGED <<pc, fr, how, robot, last>>

\* tool.link_name = l
SetLinkName ==
    /\ HasTool
    /\ \E l \in LinkNames : tool' = SetAttr(tool, "link_name", l)
    /\ UNCHANGED <<pc, fr, how, robot, last>>

\* tool.data
ReadData ==
    /\ HasTool
    /\ \E out \in {data(tool)} :
        last' = [op |-> "data", self |-> tool, err |-> out.err, ret |-> out.ret]
    /\ UNCHANGED <<pc, fr, tool, how, robot>>

\* ToolModel.from_data(tool.data)
Reserialize ==
    /\ HasTool
    /\ \E out \in {reserialize(tool)} :
        last' = [op |-> "reserialize", self |-> tool, err |-> out.err, ret |-> out.ret]
    /\ UNCHANGED <<pc, fr, tool, how, robot>>

\* tool.dtype
ReadDtype ==
    /\ HasTool
    /\ \E out \in {dtype(tool)} :
        last' = [op |-> "dtype", self |-> tool, err |-> out.err, ret |-> out.ret]
    /\ UNCHANGED <<pc, fr, tool, how, robot>>

\* The record of a conversion call: the frame of the tool when it was
\* called, the list passed, the list returned, whether the call left self
\* and the caller's list as they were, and the conversion call that had
\* returned the list passed (NoCall when the caller made the list).
ConvRecord(op, self, X, out, src) ==
    [op |-> op, err |-> out.err, frame |-> self.frame, arg |-> X, ret |-> out.ret,
     self_same |-> (out.self = self), arg_same |-> (out.frames = X), src |-> src]

IsConv(call) == call.op \in {"from_tcf_to_t0cf", "from_t0cf_to_tcf"}

\* tool.from_tcf_to_t0cf(X), X a list made by the caller
FromTcfToT0cf ==
    /\ HasTool
    /\ \E X \in FrameLists :
        \E out \in {from_tcf_to_t0cf(tool, X)} :
            /\ tool' = out.self
            /\ last' = ConvRecord("from_tcf_to_t0cf", tool, X, out, NoCall)
    /\ UNCHANGED <<pc, fr, how, robot>>

\* tool.from_t0cf_to_tcf(X), X a list made by the caller
FromT0cfToTcf ==
    /\ HasTool
    /\ \E X \in FrameLists :
        \E out \in {from_t0cf_to_tcf(tool, X)} :
            /\ tool' = out.self
            /\ last' = ConvRecord("from_t0cf_to_tcf", tool, X, out, NoCall)
    /\ UNCHANGED <<pc, fr, how, robot>>

\* What a conversion record keeps of the call that made its argument.
Source(call) == [op |-> call.op, frame |-> call.frame, arg |-> call.arg]

\* tool.from_tcf_to_t0cf(Y), Y the list the latest conversion returned
FromTcfToT0cfOfResult ==
    /\ HasTool /\ IsConv(last) /\ last.src = NoCall
    /\ \E out \in {from_tcf_to_t0cf(tool, last.ret)} :
        /\ tool' = out.self
        /\ last' = ConvRecord("from_tcf_to_t0cf", tool, last.ret, out, Source(last))
    /\ UNCHANGED <<pc, fr, how, robot>>

\* tool.from_t0cf_to_tcf(Y), Y the list the latest conversion returned
FromT0cfToTcfOfResult ==
    /\ HasTool /\ IsConv(last) /\ last.src = NoCall
    /\ \E out \in {from_t0cf_to_tcf(tool, last.ret)} :
        /\ tool' = out.self
        /\ last' = ConvRecord("from_t0cf_to_tcf", tool, last.ret, out, Source(last))
    /\ UNCHANGED <<pc, fr, how, robot>>

\* The caller drops the tool and starts over.
Discard ==
    /\ Idle /\ last # NoCall
    /\ tool' = NoObj
    /\ how' = "none"
    /\ robot' = NoObj
    /\ last' = NoCall
    /\ UNCHANGED <<pc, fr>>

\* The life of a tool: it is created in one of the three ways, its
\* attributes are assigned, it is serialized and it converts lists the
\* caller made.
Next ==
    \/ Call__init__
    \/ Run_L48
    \/ Run_L50
    \/ Run_L51
    \/ Run_L53
    \/ Run_L54
    \/ FromRobotModel
    \/ FromData
    \/ SetFrame
    \/ SetLinkName
    \/ ReadData
    \/ Reserialize
    \/ ReadDtype
    \/ FromTcfToT0cf
    \/ FromT0cfToTcf
    \/ Discard

Spec == Init /\ [][Next]_vars

\* ToolModel(visual, frame, collision, name, link_name), lines 46-54 run to
\* the end
ToolModel__init__(visual, frame_in_tool0_frame, collision, name, link_name) ==
    Init_L54(Init_L53(Init_L51(Init_L50(Init_L48(
        Init_L47(visual, frame_in_tool0_frame, collision, name, link_name)))))).self

\* The tools the conversions are followed on: one made by the constructor
\* with its defaults, one made from a robot.
ConvStarts ==
    {[tool |-> ToolModel__init__("mesh_a", FrameDoc, None, "attached_tool", None),
      how |-> "__init__"]} \cup
    {[tool |-> from_robot_model(r, FrameB, "tool0").ret, how |-> "from_robot_model"] :
        r \in {x \in Robots : x.name = "ur5"}}

InitConv ==
    /\ pc = "idle"
    /\ fr = NoObj
    /\ \E s \in ConvStarts : tool = s.tool /\ how = s.how
    /\ robot = NoObj
    /\ last = NoCall

\* Conversions feeding each other on a tool that exists, its frame
\* assigned in between.
NextConv ==
    \/ SetFrame
    \/ FromTcfToT0cf
    \/ FromT0cfToTcf
    \/ FromTcfToT0cfOfResult
    \/ FromT0cfToTcfOfResult

SpecConv == InitConv /\ [][NextConv]_vars

\* ----------------------------------------------------------------- claims
CloseV(u, v) == \A k \in 1..3 : Abs(u[k] - v[k]) <= Tol

\* Two frames equal up to the tolerance.
CloseF(f, g) == CloseV(f.point, g.point) /\ CloseV(f.xaxis, g.xaxis) /\ CloseV(f.yaxis, g.yaxis)

\* Two matrices equal up to the tolerance.
CloseM(A, B) == \A i \in 1..4, j \in 1..4 : Abs(A[i][j] - B[i][j]) <= Tol

\* The latest call is from_t0cf_to_tcf on the list from_tcf_to_t0cf
\* returned, the frame of the tool the same at both calls.
IsRoundTrip ==
    /\ last.op = "from_t0cf_to_tcf"
    /\ last.src # NoCall
    /\ last.src.op = "from_tcf_to_t0cf"
    /\ last.src.frame = last.frame

\* C1: from_t0cf_to_tcf(from_tcf_to_t0cf(X)) has the length of X and equals
\* X element by element, up to the tolerance, for every list X (the empty
\* one too) when the frame of the tool is the same at both calls.
C1_RoundTrip ==
    IsRoundTrip =>
        /\ Len(last.ret) = Len(last.src.arg)
        /\ \A i \in DOMAIN last.ret : CloseF(last.ret[i], last.src.arg[i])

\* A round trip of a list of two different frames, the frame of the tool
\* assigned before it.
C1_Witness ==
    /\ IsRoundTrip
    /\ last.src.arg = <<TcfDoc, FrameG>>
    /\ how = "__init__" /\ last.frame = FrameB

\* C3: from_robot_model leaves the robot as it was, its serialized data
\* without "frame" and "link_name", and returns a tool with the links and
\* joints of the robot, the given frame and the given link_name.
C3_FromRobotModel ==
    last.op = "from_robot_model" =>
        /\ last.err = "none"
        /\ robot = last.arg.robot
        /\ ~HasAttr(RobotModel_data(robot), "frame")
        /\ ~HasAttr(RobotModel_data(robot), "link_name")
        /\ last.ret.class = "ToolModel"
        /\ last.ret.links = last.arg.robot.links
        /\ last.ret.joints = last.arg.robot.joints
        /\ last.ret.frame = last.arg.frame
        /\ last.ret.link_name = last.arg.link_name

\* A tool made from the robot that has a joint, with a link_name.
C3_Witness ==
    /\ last.op = "from_robot_model"
    /\ Len(last.arg.robot.joints) = 1
    /\ last.arg.link_name = "tool0"
    /\ tool = last.ret

\* C4: from_data on a dictionary without "frame" raises a key error and
\* returns no tool; no default frame stands in.
C4_MissingFrame ==
    (last.op = "from_data" /\ ~HasAttr(last.arg, "frame")) =>
        /\ last.err = "KeyError"
        /\ last.ret = NoObj
        /\ tool = NoObj

\* from_data was called on a dictionary that has a name and a link_name
\* but no frame.
C4_Witness ==
    /\ last.op = "from_data"
    /\ ~HasAttr(last.arg, "frame")
    /\ HasAttr(last.arg, "link_name") /\ HasAttr(last.arg, "name")

\* The constructor was called with visual and frame alone.
WithDefaults(a) == a.collision = None /\ a.name = "attached_tool" /\ a.link_name = None

\* C5: after ToolModel(visual, frame) the link carries visual as its
\* collision mesh, the name is "attached_tool" and link_name is None; a
\* collision mesh that is supplied is the one the link carries.
C5_Constructor ==
    (last.op = "__init__" /\ HasAttr(last, "ret")) =>
        /\ Len(last.ret.links) >= 1
        /\ last.ret.links[1].visual = last.arg.visual
        /\ WithDefaults(last.arg) =>
            /\ last.ret.links[1].collision = last.arg.visual
            /\ last.ret.name = "attached_tool"
            /\ last.ret.link_name = None
        /\ last.arg.collision # None => last.ret.links[1].collision = last.arg.collision

\* The constructor has returned from a call with visual and frame alone.
C5_Witness ==
    /\ last.op = "__init__" /\ HasAttr(last, "ret")
    /\ WithDefaults(last.arg)
    /\ tool = last.ret

\* C6: a conversion returns a list of the length of its input; the i-th
\* frame returned by from_tcf_to_t0cf, composed with the frame of the tool,
\* is the i-th input frame, and the i-th frame returned by from_t0cf_to_tcf
\* is the i-th input frame composed with the frame of the tool; Te maps the
\* frame of the tool onto the world frame, or the world frame onto it; the
\* tool frame and the tcf frame of the docstring give the frame it prints.
C6_Conversion ==
    IsConv(last) =>
        /\ Len(last.ret) = Len(last.arg)
        /\ CloseM(Mul(from_frame_to_frame(last.frame, worldXY), from_frame(last.frame)),
                  from_frame(worldXY))
        /\ CloseM(Mul(from_frame_to_frame(worldXY, last.frame), from_frame(worldXY)),
                  from_frame(last.frame))
        /\ \A i \in DOMAIN last.arg :
            IF last.op = "from_tcf_to_t0cf"
            THEN /\ CloseM(Mul(from_frame(last.ret[i]), from_frame(last.frame)),
                           from_frame(last.arg[i]))
                 /\ (last.frame = FrameDoc /\ last.arg[i] = TcfDoc) =>
                        CloseF(last.ret[i], T0cfDoc)
            ELSE CloseM(from_frame(last.ret[i]),
                        Mul(from_frame(last.arg[i]), from_frame(last.frame)))

\* from_tcf_to_t0cf was called on the tcf frame of the docstring, second in
\* a list of two, by the tool of the docstring.
C6_Witness ==
    /\ last.op = "from_tcf_to_t0cf"
    /\ last.frame = FrameDoc
    /\ last.arg = <<FrameG, TcfDoc>>

\* C7: from_data on a dictionary with "frame" returns a tool; its link_name
\* is that of the dictionary, None when the key is missing; its name is the
\* name of the dictionary, "attached_tool" when that is missing or empty,
\* and so never empty.
C7_FromDataDefaults ==
    (last.op = "from_data" /\ HasAttr(last.arg, "frame")) =>
        /\ last.err = "none"
        /\ last.ret.class = "ToolModel"
        /\ last.ret.link_name =
              (IF HasAttr(last.arg, "link_name") THEN last.arg.link_name ELSE None)
        /\ last.ret.name =
              (IF HasAttr(last.arg, "name") /\ ~Falsy(last.arg.name) THEN last.arg.name
               ELSE "attached_tool")
        /\ ~Falsy(last.ret.name)
        /\ last.ret.frame = Frame_from_data(last.arg.frame)

\* from_data was called on a dictionary with a frame, an empty name and no
\* link_name.
C7_Witness ==
    /\ last.op = "from_data"
    /\ HasAttr(last.arg, "frame")
    /\ ~HasAttr(last.arg, "link_name")
    /\ HasAttr(last.arg, "name") /\ last.arg.name = ""
    /\ tool = last.ret

\* A tool that has nothing but a frame.
Bare(frame) == [class |-> "ToolModel", frame |-> frame]

\* C8: a conversion leaves the tool (frame, link_name, name, links) and the
\* list it is given as they were, and what it returns is what a tool with
\* the same frame alone returns for the same list.
C8_Pure ==
    IsConv(last) =>
        /\ last.err = "none"
        /\ last.self_same
        /\ last.arg_same
        /\ last.ret = (IF last.op = "from_tcf_to_t0cf"
                       THEN from_tcf_to_t0cf(Bare(last.frame), last.arg).ret
                       ELSE from_t0cf_to_tcf(Bare(last.frame), last.arg).ret)

\* from_t0cf_to_tcf was called on a list of two frames by a tool made from
\* a robot.
C8_Witness ==
    /\ last.op = "from_t0cf_to_tcf"
    /\ Len(last.arg) = 2
    /\ how = "from_robot_model"
    /\ tool.link_name = "tool0"

\* The tree the constructor builds: one link "attached_tool_link" at the
\* root, created from the identity.
Built(t) ==
    /\ Len(t.links) = 1
    /\ t.links[1].name = "attached_tool_link"
    /\ t.root = "attached_tool_link"
    /\ t.links[1].init_transformation = <<Identity>>

\* C10: the constructor starts from an empty tree with the given name, and
\* when it stores frame and link_name the tree is built; whatever is called
\* on it later, a tool made by the constructor has the one link
\* "attached_tool_link" at its root.
C10_OneLink ==
    /\ pc = "L48" => (fr.self.links = <<>> /\ fr.self.name = last.arg.name)
    /\ (pc # "idle" /\ (HasAttr(fr.self, "frame") \/ HasAttr(fr.self, "link_name"))) =>
            (Built(fr.self) /\ fr.self.name = last.arg.name)
    /\ (Idle /\ how = "__init__") => (Built(tool) /\ HasAttr(tool, "frame"))

\* A tool made by the constructor has converted a list after its frame was
\* assigned.
C10_Witness ==
    /\ Idle /\ how = "__init__"
    /\ IsConv(last) /\ Len(last.arg) >= 1
    /\ last.frame # tool.frame

\* The keys and values of d are kept in e.
Keeps(e, d) == \A k \in DOMAIN d : HasAttr(e, k) /\ e[k] = d[k]

\* C9: reading data returns the dictionary of the superclass with every key
\* kept, plus "frame", the serialized frame the tool has at the read, and
\* "link_name", the link_name it has at the read.
C9_Data ==
    last.op = "data" =>
        /\ last.err = "none"
        /\ Keeps(last.ret, RobotModel_data(last.self))
        /\ HasAttr(last.ret, "frame") /\ last.ret.frame = Frame_data(last.self.frame)
        /\ HasAttr(last.ret, "link_name") /\ last.ret.link_name = last.self.link_name

\* C2: ToolModel.from_data(x.data) is a tool with the links, the frame, the
\* link_name and the name of x.
C2_DataRoundTrip ==
    last.op = "reserialize" =>
        /\ last.err = "none"
        /\ last.ret.links = last.self.links
        /\ last.ret.frame = last.self.frame
        /\ last.ret.link_name = last.self.link_name
        /\ last.ret.name = last.self.name

====
